---- MODULE Spec2Model ----
(***************************************************************************)
(* Mock OMR Sheet (src/script.js): the sheet, the answer key, grading, the *)
(* timer and the file uploads, as a state machine.  Every JavaScript       *)
(* function of the script is an operator from a state record to the state  *)
(* record it leaves behind; every event the page can receive is an action  *)
(* that runs the handlers registered for it, in registration order.        *)
(*                                                                         *)
(* Strings are sequences of one-character strings.  A value that may be    *)
(* null / NaN is <<>> when it is, and <<v>> when it is the number v.       *)
(* An element that carries the class hidden shows nothing: the model keeps *)
(* what an element shows, not the text left in it while it is hidden (the  *)
(* script reads a text back only from elements that are shown).            *)
(* Marks are integers (the script's floats restricted to whole numbers).   *)
(***************************************************************************)
EXTENDS Integers, Sequences, FiniteSets, TLC

VARIABLES
    totalQuestions,     \* let totalQuestions
    correctMarks,       \* let correctMarks  (<<>> is null)
    wrongMarks,         \* let wrongMarks    (<<>> is null)
    answerKey,          \* let answerKey: function from question numbers to letters
    timerInterval,      \* let timerInterval (<<>> is null, <<id>> an interval id)
    startTime,          \* let startTime (ms)
    isGraded,           \* let isGraded
    omrSheet,           \* #omr-sheet: the question rows, in document order
    omrContainerHidden, \* #omr-container has class hidden
    manualKeyInput,     \* #manual-key value
    configError,        \* the message #config-error shows, <<>> while it is hidden
    checkError,         \* the message #check-error shows, <<>> while it is hidden
    statusMessage,      \* the message #status-message shows, <<>> while it is hidden
    results,            \* what #results-display shows, <<>> while it is hidden
    timeTakenInfo,      \* #time-taken-info text (<<>> before the first stop)
    timerDisplay,       \* #timer-display text
    checkBtn,           \* #check-btn: [text, onclick]
    confirmModalHidden, \* #confirm-modal has class hidden
    savePdfBtnHidden,   \* #save-pdf-btn has class hidden
    now,                \* Date.now() (ms)
    intervals,          \* the browser's active setInterval ids
    readers             \* file extractions in flight, in the order they were started

vars == <<totalQuestions, correctMarks, wrongMarks, answerKey, timerInterval,
          startTime, isGraded, omrSheet, omrContainerHidden, manualKeyInput,
          configError, checkError, statusMessage, results, timeTakenInfo,
          timerDisplay, checkBtn, confirmModalHidden, savePdfBtnHidden, now,
          intervals, readers>>

(***************************************************************************)
(* Bounds of the model.                                                    *)
(***************************************************************************)
MaxClockSteps == 1      \* the clock advances at most this many steps
MaxReaders == 1         \* file extractions in flight at once
UploadMaxReaders == 1   \* the same, under SpecUpload
PageLoadMs == 1000      \* Date.now() when the script loads
ClockStepMs == 1000     \* the clock advances in steps of this many ms

(***************************************************************************)
(* Program constants.                                                      *)
(***************************************************************************)
MinCount == 1
MaxCount == 200
MsPerSecond == 1000
Options == <<"A", "B", "C", "D">>

null == <<>>
NaN == <<>>

(***************************************************************************)
(* Strings.                                                                *)
(***************************************************************************)
DigitChars == <<"0", "1", "2", "3", "4", "5", "6", "7", "8", "9">>
IsDigit(c) == \E d \in 1..10 : DigitChars[d] = c
DigitVal(c) == (CHOOSE d \in 1..10 : DigitChars[d] = c) - 1
IsSpace(c) == c \in {" ", "\n"}
IsWordChar(c) ==
    \/ IsDigit(c)
    \/ c \in {"A", "B", "C", "D", "E", "Q", "a", "b", "c", "d", "e", "h", "i", "n", "s", "x", "_"}
Range(f) == {f[i] : i \in DOMAIN f}

RECURSIVE NatToStr(_)
NatToStr(n) ==
    IF n < 10 THEN <<DigitChars[n + 1]>>
    ELSE NatToStr(n \div 10) \o <<DigitChars[(n % 10) + 1]>>

\* the first position >= p of s that holds no white space (Len(s)+1 if none)
RECURSIVE SkipSpaces(_, _)
SkipSpaces(s, p) ==
    IF p <= Len(s) /\ IsSpace(s[p]) THEN SkipSpaces(s, p + 1) ELSE p

\* the first position >= p of s that holds no digit
RECURSIVE SkipDigits(_, _)
SkipDigits(s, p) ==
    IF p <= Len(s) /\ IsDigit(s[p]) THEN SkipDigits(s, p + 1) ELSE p

\* the number written by the digits s[p..q-1]
RECURSIVE DigitsValue(_, _, _)
DigitsValue(s, p, q) ==
    IF q <= p THEN 0 ELSE DigitsValue(s, p, q - 1) * 10 + DigitVal(s[q - 1])

\* the last position <= p of s that holds no white space (0 if none)
RECURSIVE SkipSpacesBack(_, _)
SkipSpacesBack(s, p) ==
    IF p >= 1 /\ IsSpace(s[p]) THEN SkipSpacesBack(s, p - 1) ELSE p

\* String.prototype.trim
trim(s) ==
    LET a == SkipSpaces(s, 1)
        b == SkipSpacesBack(s, Len(s))
    IN  IF a > b THEN <<>> ELSE SubSeq(s, a, b)

\* String.prototype.toUpperCase, one character: the sharp s becomes two letters
UpperChar(c) ==
    CASE c = "a" -> <<"A">> [] c = "b" -> <<"B">> [] c = "c" -> <<"C">>
      [] c = "d" -> <<"D">> [] c = "e" -> <<"E">> [] c = "h" -> <<"H">>
      [] c = "i" -> <<"I">> [] c = "n" -> <<"N">> [] c = "s" -> <<"S">>
      [] c = "x" -> <<"X">> [] c = "sz" -> <<"S", "S">>
      [] OTHER -> <<c>>

RECURSIVE toUpperCase(_)
toUpperCase(s) ==
    IF s = <<>> THEN <<>> ELSE UpperChar(Head(s)) \o toUpperCase(Tail(s))

\* parseInt(s, 10): leading white space, an optional sign, then the longest run
\* of digits; NaN when there is no digit there
parseInt(s) ==
    LET a == SkipSpaces(s, 1)
        signed == a <= Len(s) /\ s[a] \in {"-", "+"}
        b == IF signed THEN a + 1 ELSE a
        e == SkipDigits(s, b)
        v == DigitsValue(s, b, e)
    IN  IF e = b THEN NaN
        ELSE IF signed /\ s[a] = "-" THEN <<0 - v>> ELSE <<v>>

\* parseFloat(s) on the strings of the model, which write whole numbers
parseFloat(s) == parseInt(s)

isNaN(v) == v = NaN

\* String.prototype.toLowerCase on the letters file names are written with
LowerChar(c) ==
    CASE c = "X" -> "x" [] c = "L" -> "l" [] c = "S" -> "s"
      [] c = "P" -> "p" [] c = "D" -> "d" [] c = "F" -> "f"
      [] OTHER -> c

toLowerCase(s) == [i \in 1..Len(s) |-> LowerChar(s[i])]

\* name.split('.').pop(): what follows the last dot, the whole name without one
RECURSIVE LastDot(_, _)
LastDot(s, p) == IF p >= 1 /\ s[p] # "." THEN LastDot(s, p - 1) ELSE p

SplitPop(s) == SubSeq(s, LastDot(s, Len(s)) + 1, Len(s))

\* n.toString().padStart(2, '0')
PadStart2(n) == IF n < 10 THEN <<"0">> \o NatToStr(n) ELSE NatToStr(n)

\* formatTime(ms): "MM:SS"
formatTime(ms) ==
    LET totalSeconds == ms \div MsPerSecond
        minutes == PadStart2(totalSeconds \div 60)
        seconds == PadStart2(totalSeconds % 60)
    IN  minutes \o <<":">> \o seconds

(***************************************************************************)
(* The state as one record, so that the script's functions compose.        *)
(***************************************************************************)
Cur ==
    [totalQuestions |-> totalQuestions, correctMarks |-> correctMarks,
     wrongMarks |-> wrongMarks, answerKey |-> answerKey,
     timerInterval |-> timerInterval, startTime |-> startTime,
     isGraded |-> isGraded, omrSheet |-> omrSheet,
     omrContainerHidden |-> omrContainerHidden,
     manualKeyInput |-> manualKeyInput, configError |-> configError,
     checkError |-> checkError, statusMessage |-> statusMessage,
     results |-> results, timeTakenInfo |-> timeTakenInfo,
     timerDisplay |-> timerDisplay, checkBtn |-> checkBtn,
     confirmModalHidden |-> confirmModalHidden,
     savePdfBtnHidden |-> savePdfBtnHidden, now |-> now,
     intervals |-> intervals, readers |-> readers]

Install(s) ==
    /\ totalQuestions' = s.totalQuestions
    /\ correctMarks' = s.correctMarks
    /\ wrongMarks' = s.wrongMarks
    /\ answerKey' = s.answerKey
    /\ timerInterval' = s.timerInterval
    /\ startTime' = s.startTime
    /\ isGraded' = s.isGraded
    /\ omrSheet' = s.omrSheet
    /\ omrContainerHidden' = s.omrContainerHidden
    /\ manualKeyInput' = s.manualKeyInput
    /\ configError' = s.configError
    /\ checkError' = s.checkError
    /\ statusMessage' = s.statusMessage
    /\ results' = s.results
    /\ timeTakenInfo' = s.timeTakenInfo
    /\ timerDisplay' = s.timerDisplay
    /\ checkBtn' = s.checkBtn
    /\ confirmModalHidden' = s.confirmModalHidden
    /\ savePdfBtnHidden' = s.savePdfBtnHidden
    /\ now' = s.now
    /\ intervals' = s.intervals
    /\ readers' = s.readers

EmptyKey == [k \in {} |-> "A"]
Keys(key) == DOMAIN key                     \* Object.keys(answerKey)
\* newKey[k] = v keeping the entry k already has
Put_KeepsFirst(key, k, v) ==
    [x \in (DOMAIN key) \cup {k} |-> IF x \in DOMAIN key THEN key[x] ELSE v]

Put(key, k, v) == [x \in (DOMAIN key) \cup {k} |-> IF x = k THEN v ELSE key[x]]

(***************************************************************************)
(* UI helper functions.                                                    *)
(***************************************************************************)
showError(message) == message
hideError(element) == <<>>
showStatusMessage(message) == message
hideStatusMessage(element) == <<>>

(***************************************************************************)
(* Timer functions.                                                        *)
(***************************************************************************)
clearInterval(active, id) == active \ Range(id)

\* setInterval hands out an id that no live interval uses
FreshInterval(s) ==
    CHOOSE id \in 1..(Cardinality(s.intervals) + 1) : id \notin s.intervals

\* startTimer without the clearInterval of the previous interval
startTimer_NoClear(s) ==
    LET id == FreshInterval(s)
    IN  [s EXCEPT !.startTime = s.now,
                  !.timerInterval = <<id>>,
                  !.intervals = s.intervals \cup {id}]

\* startTimer()
startTimer(s) ==
    LET cleared == [s EXCEPT !.intervals = clearInterval(s.intervals, s.timerInterval)]
        id == FreshInterval(cleared)
    IN  [cleared EXCEPT !.startTime = s.now,
                        !.timerInterval = <<id>>,
                        !.intervals = cleared.intervals \cup {id}]

stopTimer(s) ==
    [s EXCEPT !.intervals = clearInterval(s.intervals, s.timerInterval),
              !.timeTakenInfo = formatTime(s.now - s.startTime)]

(***************************************************************************)
(* Question rows.                                                          *)
(***************************************************************************)
\* row.querySelector('.ring-2'): the first ringed label of a row, if any
FirstRinged(ring) ==
    IF ring = {} THEN {}
    ELSE {Options[CHOOSE i \in 1..Len(Options) :
              Options[i] \in ring /\ \A j \in 1..(i - 1) : Options[j] \notin ring]}

\* createQuestionRow(i) with the listeners generateOMRSheet attaches: four
\* unchecked, enabled radio buttons and a hidden clear button
createQuestionRow(i) ==
    [id |-> i, checked |-> "none", disabled |-> FALSE, clearHidden |-> TRUE,
     cls |-> "none", ring |-> {}]

\* resetOMRState(): answers, results and the check button back to the start
resetOMRState(s) ==
    [s EXCEPT !.answerKey = EmptyKey,
              !.manualKeyInput = <<>>,
              !.results = <<>>,
              !.savePdfBtnHidden = TRUE,
              !.checkError = hideError(s.checkError),
              !.statusMessage = hideStatusMessage(s.statusMessage),
              !.isGraded = FALSE,
              !.checkBtn = [text |-> "Finish & Check", onclick |-> "handleCheckAnswers"],
              !.omrSheet = [i \in 1..Len(s.omrSheet) |->
                               [s.omrSheet[i] EXCEPT !.cls = "none",
                                                     !.disabled = FALSE,
                                                     !.checked = "none",
                                                     !.ring = @ \ FirstRinged(@)]]]

\* generateOMRSheet with the upper limit itself turned away (>= for >)
generateOMRSheet_RejectsLimit(s, countValue, correctValue, wrongValue) ==
    LET count == parseInt(countValue)
    IN  IF isNaN(count) \/ count[1] < MinCount \/ count[1] >= MaxCount
        THEN [s EXCEPT !.configError = showError(<<"Please enter a number between 1 and 200.">>)]
        ELSE
          LET cm == IF correctValue # <<>> THEN parseFloat(correctValue) ELSE null
              wm0 == IF wrongValue # <<>> THEN parseFloat(wrongValue) ELSE null
              wm == IF wm0 # null /\ wm0[1] > 0 THEN <<0 - wm0[1]>> ELSE wm0
              s1 == [s EXCEPT !.configError = hideError(s.configError),
                              !.totalQuestions = count[1],
                              !.correctMarks = cm,
                              !.wrongMarks = wm,
                              !.omrSheet = [i \in 1..count[1] |-> createQuestionRow(i)],
                              !.omrContainerHidden = FALSE]
          IN  startTimer(resetOMRState(s1))

\* generateOMRSheet with the marking scheme stored before the count is checked
generateOMRSheet_StoresFirst(s, countValue, correctValue, wrongValue) ==
    LET count == parseInt(countValue)
        cm == IF correctValue # <<>> THEN parseFloat(correctValue) ELSE null
        wm0 == IF wrongValue # <<>> THEN parseFloat(wrongValue) ELSE null
        wm == IF wm0 # null /\ wm0[1] > 0 THEN <<0 - wm0[1]>> ELSE wm0
    IN  IF isNaN(count) \/ count[1] < MinCount \/ count[1] > MaxCount
        THEN [s EXCEPT !.configError = showError(<<"Please enter a number between 1 and 200.">>),
                       !.correctMarks = cm,
                       !.wrongMarks = wm]
        ELSE
          LET s1 == [s EXCEPT !.configError = hideError(s.configError),
                              !.totalQuestions = count[1],
                              !.correctMarks = cm,
                              !.wrongMarks = wm,
                              !.omrSheet = [i \in 1..count[1] |-> createQuestionRow(i)],
                              !.omrContainerHidden = FALSE]
          IN  startTimer(resetOMRState(s1))

\* generateOMRSheet storing the wrong marks with the sign they were entered with
generateOMRSheet_KeepsSign(s, countValue, correctValue, wrongValue) ==
    LET count == parseInt(countValue)
    IN  IF isNaN(count) \/ count[1] < MinCount \/ count[1] > MaxCount
        THEN [s EXCEPT !.configError = showError(<<"Please enter a number between 1 and 200.">>)]
        ELSE
          LET cm == IF correctValue # <<>> THEN parseFloat(correctValue) ELSE null
              wm == IF wrongValue # <<>> THEN parseFloat(wrongValue) ELSE null
              s1 == [s EXCEPT !.configError = hideError(s.configError),
                              !.totalQuestions = count[1],
                              !.correctMarks = cm,
                              !.wrongMarks = wm,
                              !.omrSheet = [i \in 1..count[1] |-> createQuestionRow(i)],
                              !.omrContainerHidden = FALSE]
          IN  startTimer(resetOMRState(s1))

\* generateOMRSheet() with the three configuration inputs as they read
generateOMRSheet(s, countValue, correctValue, wrongValue) ==
    LET count == parseInt(countValue)
    IN  IF isNaN(count) \/ count[1] < MinCount \/ count[1] > MaxCount
        THEN [s EXCEPT !.configError = showError(<<"Please enter a number between 1 and 200.">>)]
        ELSE
          LET cm == IF correctValue # <<>> THEN parseFloat(correctValue) ELSE null
              wm0 == IF wrongValue # <<>> THEN parseFloat(wrongValue) ELSE null
              wm == IF wm0 # null /\ wm0[1] > 0 THEN <<0 - wm0[1]>> ELSE wm0
              s1 == [s EXCEPT !.configError = hideError(s.configError),
                              !.totalQuestions = count[1],
                              !.correctMarks = cm,
                              !.wrongMarks = wm,
                              !.omrSheet = [i \in 1..count[1] |-> createQuestionRow(i)],
                              !.omrContainerHidden = FALSE]
          IN  startTimer(resetOMRState(s1))

\* a radio button of row q is clicked: it becomes the checked one, and the row's
\* change listener shows the clear button
selectOption(s, q, option) ==
    [s EXCEPT !.omrSheet[q].checked = option, !.omrSheet[q].clearHidden = FALSE]

\* clearSelection(questionNumber)
clearSelection(s, questionNumber) ==
    [s EXCEPT !.omrSheet[questionNumber].checked = "none",
              !.omrSheet[questionNumber].clearHidden = TRUE]

(***************************************************************************)
(* Grading.                                                                *)
(***************************************************************************)
\* document.getElementById(`q-row-${i}`): the position of that row in the sheet
RowIndex(sheet, i) == CHOOSE k \in 1..Len(sheet) : sheet[k].id = i

\* the body of gradeSheet's loop for question i: the row is frozen and marked,
\* and one of the three counters goes up.  acc = [sheet, correct, incorrect, unanswered]
\* a character that ends the quoted value of label[for="q${i}-opt${correctAnswer}"]:
\* row.querySelector throws a SyntaxError on the selector it leaves
SelectorBreaking == {"\""}

\* the loop body of gradeSheet counting a question without a key entry as correct
GradeRow_MissingMatches(acc, key, i) ==
    LET k == RowIndex(acc.sheet, i)
        row == [acc.sheet[k] EXCEPT !.cls = "none", !.disabled = TRUE, !.clearHidden = TRUE]
        selectedOption == row.checked
        hasAnswer == i \in DOMAIN key
    IN  IF selectedOption = "none"
        THEN [acc EXCEPT !.sheet[k] = row, !.unanswered = @ + 1]
        ELSE IF ~hasAnswer \/ selectedOption = key[i]
        THEN [acc EXCEPT !.sheet[k] = [row EXCEPT !.cls = "correct"], !.correct = @ + 1]
        ELSE [acc EXCEPT !.sheet[k] =
                             [row EXCEPT !.cls = "incorrect",
                                         !.ring = IF key[i] \in Range(Options)
                                                  THEN @ \cup {key[i]} ELSE @],
                         !.incorrect = @ + 1,
                         !.thrown = key[i] \in SelectorBreaking]

\* the loop body of gradeSheet leaving the clear button of the row in place
GradeRow_KeepsClearButton(acc, key, i) ==
    LET k == RowIndex(acc.sheet, i)
        row == [acc.sheet[k] EXCEPT !.cls = "none", !.disabled = TRUE]
        selectedOption == row.checked
        hasAnswer == i \in DOMAIN key
    IN  IF selectedOption = "none"
        THEN [acc EXCEPT !.sheet[k] = row, !.unanswered = @ + 1]
        ELSE IF hasAnswer /\ selectedOption = key[i]
        THEN [acc EXCEPT !.sheet[k] = [row EXCEPT !.cls = "correct"], !.correct = @ + 1]
        ELSE [acc EXCEPT !.sheet[k] =
                             [row EXCEPT !.cls = "incorrect",
                                         !.ring = IF hasAnswer /\ key[i] \in Range(Options)
                                                  THEN @ \cup {key[i]} ELSE @],
                         !.incorrect = @ + 1,
                         !.thrown = hasAnswer /\ key[i] \in SelectorBreaking]

\* one pass of the loop body of gradeSheet; thrown records the uncaught
\* exception of row.querySelector, which ends gradeSheet and its caller
GradeRow(acc, key, i) ==
    LET k == RowIndex(acc.sheet, i)
        row == [acc.sheet[k] EXCEPT !.cls = "none", !.disabled = TRUE, !.clearHidden = TRUE]
        selectedOption == row.checked
        hasAnswer == i \in DOMAIN key
    IN  IF selectedOption = "none"
        THEN [acc EXCEPT !.sheet[k] = row, !.unanswered = @ + 1]
        ELSE IF hasAnswer /\ selectedOption = key[i]
        THEN [acc EXCEPT !.sheet[k] = [row EXCEPT !.cls = "correct"], !.correct = @ + 1]
        ELSE [acc EXCEPT !.sheet[k] =
                             [row EXCEPT !.cls = "incorrect",
                                         !.ring = IF hasAnswer /\ key[i] \in Range(Options)
                                                  THEN @ \cup {key[i]} ELSE @],
                         !.incorrect = @ + 1,
                         !.thrown = hasAnswer /\ key[i] \in SelectorBreaking]

\* for (let i = 1; i <= totalQuestions; i++) { ... }
RECURSIVE GradeLoop(_, _, _, _)
GradeLoop(acc, key, i, n) ==
    IF i > n \/ acc.thrown THEN acc ELSE GradeLoop(GradeRow(acc, key, i), key, i + 1, n)

\* gradeSheet taking the penalty away from the score with the wrong sign
gradeSheet_SubtractsPenalty(s) ==
    LET s1 == stopTimer(s)
        n == s.totalQuestions
        done == GradeLoop([sheet |-> s.omrSheet, correct |-> 0, incorrect |-> 0,
                           unanswered |-> 0, thrown |-> FALSE], s.answerKey, 1, n)
        correct == done.correct
        incorrect == done.incorrect
        lossEach == IF s.wrongMarks = null THEN 0 ELSE s.wrongMarks[1]
        breakdown ==
            IF s.correctMarks # null
            THEN <<[gained |-> correct * s.correctMarks[1], lost |-> incorrect * lossEach]>>
            ELSE <<>>
        score ==
            IF s.correctMarks # null
            THEN <<(correct * s.correctMarks[1]) - (incorrect * lossEach)>>
            ELSE <<correct, n>>
        totalInfo == IF s.correctMarks # null THEN <<n * s.correctMarks[1]>> ELSE <<>>
    IN  IF done.thrown
        THEN [s1 EXCEPT !.checkError = hideError(s.checkError),
                        !.isGraded = TRUE,
                        !.omrSheet = done.sheet]
        ELSE
        [s1 EXCEPT !.checkError = hideError(s.checkError),
                   !.isGraded = TRUE,
                   !.omrSheet = done.sheet,
                   !.results = <<[score |-> score, totalInfo |-> totalInfo,
                                  breakdown |-> breakdown,
                                  correct |-> correct, incorrect |-> incorrect,
                                  unanswered |-> done.unanswered]>>,
                   !.savePdfBtnHidden = FALSE]

\* gradeSheet counting on from the correct count already on display
gradeSheet_Accumulates(s) ==
    LET s1 == stopTimer(s)
        n == s.totalQuestions
        done == GradeLoop([sheet |-> s.omrSheet,
                           correct |-> IF s.results = <<>> THEN 0 ELSE s.results[1].correct,
                           incorrect |-> 0,
                           unanswered |-> 0, thrown |-> FALSE], s.answerKey, 1, n)
        correct == done.correct
        incorrect == done.incorrect
        lossEach == IF s.wrongMarks = null THEN 0 ELSE s.wrongMarks[1]
        breakdown ==
            IF s.correctMarks # null
            THEN <<[gained |-> correct * s.correctMarks[1], lost |-> incorrect * lossEach]>>
            ELSE <<>>
        score ==
            IF s.correctMarks # null
            THEN <<(correct * s.correctMarks[1]) + (incorrect * lossEach)>>
            ELSE <<correct, n>>
        totalInfo == IF s.correctMarks # null THEN <<n * s.correctMarks[1]>> ELSE <<>>
    IN  IF done.thrown
        THEN [s1 EXCEPT !.checkError = hideError(s.checkError),
                        !.isGraded = TRUE,
                        !.omrSheet = done.sheet]
        ELSE
        [s1 EXCEPT !.checkError = hideError(s.checkError),
                   !.isGraded = TRUE,
                   !.omrSheet = done.sheet,
                   !.results = <<[score |-> score, totalInfo |-> totalInfo,
                                  breakdown |-> breakdown,
                                  correct |-> correct, incorrect |-> incorrect,
                                  unanswered |-> done.unanswered]>>,
                   !.savePdfBtnHidden = FALSE]

\* gradeSheet()
gradeSheet(s) ==
    LET s1 == stopTimer(s)
        n == s.totalQuestions
        done == GradeLoop([sheet |-> s.omrSheet, correct |-> 0, incorrect |-> 0,
                           unanswered |-> 0, thrown |-> FALSE], s.answerKey, 1, n)
        correct == done.correct
        incorrect == done.incorrect
        lossEach == IF s.wrongMarks = null THEN 0 ELSE s.wrongMarks[1]
        breakdown ==
            IF s.correctMarks # null
            THEN <<[gained |-> correct * s.correctMarks[1], lost |-> incorrect * lossEach]>>
            ELSE <<>>
        score ==
            IF s.correctMarks # null
            THEN <<(correct * s.correctMarks[1]) + (incorrect * lossEach)>>
            ELSE <<correct, n>>
        totalInfo == IF s.correctMarks # null THEN <<n * s.correctMarks[1]>> ELSE <<>>
    IN  IF done.thrown
        THEN [s1 EXCEPT !.checkError = hideError(s.checkError),
                        !.isGraded = TRUE,
                        !.omrSheet = done.sheet]
        ELSE
        [s1 EXCEPT !.checkError = hideError(s.checkError),
                   !.isGraded = TRUE,
                   !.omrSheet = done.sheet,
                   !.results = <<[score |-> score, totalInfo |-> totalInfo,
                                  breakdown |-> breakdown,
                                  correct |-> correct, incorrect |-> incorrect,
                                  unanswered |-> done.unanswered]>>,
                   !.savePdfBtnHidden = FALSE]

\* handleCheckAnswers without the size check of an uploaded key
handleCheckAnswers_NoUploadedCheck(s) ==
    LET manualKey == toUpperCase(trim(s.manualKeyInput))
        hasAnswerKey == manualKey # <<>> \/ Cardinality(Keys(s.answerKey)) > 0
    IN  IF hasAnswerKey
        THEN IF manualKey # <<>>
             THEN IF Len(manualKey) # s.totalQuestions
                  THEN [s EXCEPT !.checkError =
                           showError(<<"Manual key has", Len(manualKey),
                                       "answers, but there are", s.totalQuestions>>)]
                  ELSE gradeSheet([s EXCEPT !.answerKey =
                                      [i \in 1..Len(manualKey) |-> manualKey[i]]])
             ELSE gradeSheet(s)
        ELSE [s EXCEPT !.confirmModalHidden = FALSE]

\* handleCheckAnswers()
handleCheckAnswers(s) ==
    LET manualKey == toUpperCase(trim(s.manualKeyInput))
        hasAnswerKey == manualKey # <<>> \/ Cardinality(Keys(s.answerKey)) > 0
    IN  IF hasAnswerKey
        THEN IF manualKey # <<>>
             THEN IF Len(manualKey) # s.totalQuestions
                  THEN [s EXCEPT !.checkError =
                           showError(<<"Manual key has", Len(manualKey),
                                       "answers, but there are", s.totalQuestions>>)]
                  ELSE gradeSheet([s EXCEPT !.answerKey =
                                      [i \in 1..Len(manualKey) |-> manualKey[i]]])
             ELSE IF Cardinality(Keys(s.answerKey)) # s.totalQuestions
                  THEN [s EXCEPT !.checkError =
                           showError(<<"Uploaded key has", Cardinality(Keys(s.answerKey)),
                                       "answers, but there are", s.totalQuestions>>)]
                  ELSE gradeSheet(s)
        ELSE [s EXCEPT !.confirmModalHidden = FALSE]

\* saveResultAsPDF(): the report goes to pdf.save, the status message is hidden
saveResultAsPDF(s) ==
    [s EXCEPT !.statusMessage = hideStatusMessage(showStatusMessage(<<"Generating PDF...">>))]

\* handleConfirmProceed()
handleConfirmProceed(s) ==
    LET s1 == stopTimer([s EXCEPT !.confirmModalHidden = TRUE])
    IN  [s1 EXCEPT !.isGraded = FALSE,
                   !.omrSheet = [i \in 1..Len(s.omrSheet) |->
                                    [s.omrSheet[i] EXCEPT !.disabled = TRUE,
                                                          !.clearHidden = TRUE]],
                   !.statusMessage = showStatusMessage(<<"You can now save your marked sheet.">>),
                   !.checkBtn = [text |-> "Save Marked Sheet as PDF",
                                 onclick |-> "saveResultAsPDF"]]

\* resetEverything leaving the interval of the timer alive
resetEverything_KeepsInterval(s) ==
    LET s1 == resetOMRState([s EXCEPT !.omrContainerHidden = TRUE,
                                      !.omrSheet = <<>>,
                                      !.totalQuestions = 0,
                                      !.correctMarks = null,
                                      !.wrongMarks = null])
    IN  [s1 EXCEPT !.timerDisplay = <<"0", "0", ":", "0", "0">>]

\* resetEverything()
resetEverything(s) ==
    LET s1 == resetOMRState([s EXCEPT !.omrContainerHidden = TRUE,
                                      !.omrSheet = <<>>,
                                      !.totalQuestions = 0,
                                      !.correctMarks = null,
                                      !.wrongMarks = null])
    IN  [s1 EXCEPT !.intervals = clearInterval(s1.intervals, s1.timerInterval),
                   !.timerDisplay = <<"0", "0", ":", "0", "0">>]

(***************************************************************************)
(* File handling and parsing.                                              *)
(***************************************************************************)
\* row[k] as String(row[k]): a missing cell reads "undefined"
Cell(row, k) ==
    IF k + 1 <= Len(row) THEN row[k + 1]
    ELSE <<"u", "n", "d", "e", "f", "i", "n", "e", "d">>

\* data.forEach(row => { ... }) over the rows from position i on.
\* acc = [newKey, parsedCount]
RECURSIVE ExcelRows(_, _, _)
ExcelRows(data, i, acc) ==
    IF i > Len(data) THEN acc
    ELSE
      LET qNum == parseInt(Cell(data[i], 0))
          answer == toUpperCase(trim(Cell(data[i], 1)))
      IN  IF ~isNaN(qNum) /\ \E o \in Range(Options) : answer = <<o>>
          THEN ExcelRows(data, i + 1, [newKey |-> Put(acc.newKey, qNum[1], answer[1]),
                                       parsedCount |-> acc.parsedCount + 1])
          ELSE ExcelRows(data, i + 1, acc)

\* parseAnswerKeyFromExcel adding the accepted rows to the key already loaded
parseAnswerKeyFromExcel_Merges(s, data) ==
    LET parsed == ExcelRows(data, 1, [newKey |-> EmptyKey, parsedCount |-> 0])
    IN  IF parsed.parsedCount > 0
        THEN [s EXCEPT !.answerKey =
                           [x \in (DOMAIN s.answerKey) \cup (DOMAIN parsed.newKey) |->
                               IF x \in DOMAIN parsed.newKey THEN parsed.newKey[x]
                               ELSE s.answerKey[x]],
                       !.manualKeyInput = <<>>,
                       !.checkError = hideError(s.checkError),
                       !.statusMessage =
                           showStatusMessage(<<parsed.parsedCount, "answers loaded.">>)]
        ELSE [s EXCEPT !.checkError =
                 showError(<<"Could not find valid answers in the Excel file.">>)]

\* parseAnswerKeyFromExcel reporting the size of the key for the accepted rows
parseAnswerKeyFromExcel_CountsKeys(s, data) ==
    LET parsed == ExcelRows(data, 1, [newKey |-> EmptyKey, parsedCount |-> 0])
    IN  IF parsed.parsedCount > 0
        THEN [s EXCEPT !.answerKey = parsed.newKey,
                       !.manualKeyInput = <<>>,
                       !.checkError = hideError(s.checkError),
                       !.statusMessage =
                           showStatusMessage(<<Cardinality(DOMAIN parsed.newKey),
                                               "answers loaded.">>)]
        ELSE [s EXCEPT !.checkError =
                 showError(<<"Could not find valid answers in the Excel file.">>)]

\* parseAnswerKeyFromExcel(data)
parseAnswerKeyFromExcel(s, data) ==
    LET parsed == ExcelRows(data, 1, [newKey |-> EmptyKey, parsedCount |-> 0])
    IN  IF parsed.parsedCount > 0
        THEN [s EXCEPT !.answerKey = parsed.newKey,
                       !.manualKeyInput = <<>>,
                       !.checkError = hideError(s.checkError),
                       !.statusMessage =
                           showStatusMessage(<<parsed.parsedCount, "answers loaded.">>)]
        ELSE [s EXCEPT !.checkError =
                 showError(<<"Could not find valid answers in the Excel file.">>)]

\* /(\d+)\s*[:.-]?\s*([A-D])\b/ tried at position p of text: <<>> when it does
\* not match there, else <<[num, letter, end]>> with end the position after it
MatchAt(text, p) ==
    IF ~(p <= Len(text) /\ IsDigit(text[p])) THEN <<>>
    ELSE
      LET e == SkipDigits(text, p)
          q == SkipSpaces(text, e)
          q2 == IF q <= Len(text) /\ text[q] \in {":", ".", "-"} THEN q + 1 ELSE q
          r == SkipSpaces(text, q2)
      IN  IF /\ r <= Len(text)
             /\ text[r] \in Range(Options)
             /\ (r = Len(text) \/ ~IsWordChar(text[r + 1]))
          THEN <<[num |-> DigitsValue(text, p, e), letter |-> text[r], end |-> r + 1]>>
          ELSE <<>>

\* while ((match = regex.exec(text)) !== null) { ... } from lastIndex p on
RECURSIVE TextMatches(_, _, _)
TextMatches(text, p, acc) ==
    IF p > Len(text) THEN acc
    ELSE
      LET m == MatchAt(text, p)
      IN  IF m = <<>> THEN TextMatches(text, p + 1, acc)
          ELSE TextMatches(text, m[1].end,
                           [newKey |-> Put(acc.newKey, m[1].num, m[1].letter),
                            parsedCount |-> acc.parsedCount + 1])

\* parseAnswerKeyFromText storing the new key before it looks at the count
parseAnswerKeyFromText_AlwaysAssigns(s, text) ==
    LET parsed == TextMatches(text, 1, [newKey |-> EmptyKey, parsedCount |-> 0])
        s1 == [s EXCEPT !.answerKey = parsed.newKey]
    IN  IF parsed.parsedCount > 0
        THEN [s1 EXCEPT !.manualKeyInput = <<>>,
                        !.checkError = hideError(s.checkError),
                        !.statusMessage =
                            showStatusMessage(<<parsed.parsedCount, "answers loaded.">>)]
        ELSE [s1 EXCEPT !.checkError =
                 showError(<<"Could not find valid answers in the PDF.">>)]

\* parseAnswerKeyFromText(text)
parseAnswerKeyFromText(s, text) ==
    LET parsed == TextMatches(text, 1, [newKey |-> EmptyKey, parsedCount |-> 0])
    IN  IF parsed.parsedCount > 0
        THEN [s EXCEPT !.answerKey = parsed.newKey,
                       !.manualKeyInput = <<>>,
                       !.checkError = hideError(s.checkError),
                       !.statusMessage =
                           showStatusMessage(<<parsed.parsedCount, "answers loaded.">>)]
        ELSE [s EXCEPT !.checkError =
                 showError(<<"Could not find valid answers in the PDF.">>)]

\* handleFileUpload(event): file is <<>> when the change event carries no file,
\* else <<[name, corrupt, rows, text]>>.  A supported file starts a reader.
handleFileUpload(s, file) ==
    IF file = <<>> THEN s
    ELSE
      LET extension == toLowerCase(SplitPop(file[1].name))
      IN  IF extension = <<"x", "l", "s", "x">> \/ extension = <<"x", "l", "s">>
          THEN [s EXCEPT !.readers = Append(@, [kind |-> "excel", file |-> file[1]])]
          ELSE IF extension = <<"p", "d", "f">>
          THEN [s EXCEPT !.readers = Append(@, [kind |-> "pdf", file |-> file[1]])]
          ELSE [s EXCEPT !.checkError =
                   showError(<<"Unsupported file type. Please use .xlsx, .xls, or .pdf">>)]

RemoveAt(seq, k) == SubSeq(seq, 1, k - 1) \o SubSeq(seq, k + 1, Len(seq))

\* reader.onload of the k-th extraction in flight, through to the end of its
\* promise chain: the workbook or the document is decoded, then parsed; a file
\* the library cannot decode ends in the catch branch
readerOnload(s, k) ==
    LET r == s.readers[k]
        s1 == [s EXCEPT !.readers = RemoveAt(@, k)]
    IN  IF r.kind = "excel"
        THEN IF r.file.corrupt
             THEN [s1 EXCEPT !.checkError = showError(<<"Failed to process Excel file.">>)]
             ELSE parseAnswerKeyFromExcel(s1, r.file.rows)
        ELSE IF r.file.corrupt
             THEN [s1 EXCEPT !.checkError = showError(<<"Failed to process PDF file.">>)]
             ELSE parseAnswerKeyFromText(s1, r.file.text)

\* the setInterval callback of startTimer
timerCallback(s) == [s EXCEPT !.timerDisplay = formatTime(s.now - s.startTime)]

\* a click on #check-btn: the listener added at load runs first, then whatever
\* checkBtn.onclick holds
checkBtnClick(s) ==
    LET s1 == handleCheckAnswers(s)
    IN  IF s1.checkBtn.onclick = "handleCheckAnswers" THEN handleCheckAnswers(s1)
        ELSE IF s1.checkBtn.onclick = "saveResultAsPDF" THEN saveResultAsPDF(s1)
        ELSE s1

(***************************************************************************)
(* The inputs the user and the file extractors supply.  Each specification *)
(* below runs every event of the page and draws the inputs from its own    *)
(* sets (a selection is a row and the option clicked in it): Spec varies   *)
(* the manual key, SpecConfig the configuration (up to the largest sheet), *)
(* SpecScore the marking scheme and the selections of a four-question      *)
(* sheet, SpecUpload the uploaded files.                                   *)
(***************************************************************************)
CountValues ==
    {<<"1">>, <<"2">>}
CorrectValues == {<<>>}
WrongValues == {<<>>}
ManualKeys == {<<>>, <<"a">>, <<"B", "a">>, <<" ", "a", " ">>, <<" ", " ">>, <<"\"">>}
Selections == {<<1, "A">>}
ConfigCountValues ==
    {<<>>, <<"0">>, <<"1">>, <<"1", "x">>, <<"2", "0", "0">>, <<"2", "0", "1">>}
ConfigCorrectValues == {<<"4">>}
ConfigWrongValues ==
    {<<"1">>}
ConfigManualKeys == {<<>>, <<"a">>}
ConfigSelections == {<<1, "A">>, <<200, "D">>}
ScoreCountValues ==
    {<<"4">>}
ScoreCorrectValues == {<<>>, <<"4">>}
ScoreWrongValues == {<<>>, <<"1">>, <<"-", "1">>}
ScoreManualKeys == {<<"A", "B", "C", "D">>}
ScoreSelections == {<<1, "A">>, <<2, "A">>, <<4, "D">>}
UploadCountValues ==
    {<<"2">>}
UploadManualKeys ==
    {<<>>, <<"a">>}
UploadSelections == {<<1, "A">>}
KeyXlsx ==
    [name |-> <<"k", ".", "x", "l", "s", "x">>, corrupt |-> FALSE,
     rows |-> <<<<<<"1">>, <<"A">>>>, <<<<"2">>, <<"B">>>>>>, text |-> <<>>]
HeaderXls ==
    [name |-> <<"k", ".", "X", "L", "S">>, corrupt |-> FALSE,
     rows |-> <<<<<<"Q">>, <<"A", "n", "s">>>>, <<<<"1">>, <<" ", "b", " ">>>>>>, text |-> <<>>]
EmptyXlsx ==
    [name |-> <<"e", ".", "x", "l", "s", "x">>, corrupt |-> FALSE,
     rows |-> <<<<<<"Q">>, <<"A", "n", "s">>>>, <<<<"1">>, <<"E">>>>, <<<<"x">>>>>>, text |-> <<>>]
BadXlsx ==
    [name |-> <<"b", ".", "x", "l", "s", "x">>, corrupt |-> TRUE, rows |-> <<>>, text |-> <<>>]
KeyPdf ==
    [name |-> <<"k", ".", "p", "d", "f">>, corrupt |-> FALSE, rows |-> <<>>,
     text |-> <<"1", ".", " ", "A", " ", "2", "-", "B">>]
DupPdf ==
    [name |-> <<"d", ".", "p", "d", "f">>, corrupt |-> FALSE, rows |-> <<>>,
     text |-> <<"1", ".", " ", "A", " ", "2", "-", "A", " ", "2", "-", "B">>]
EmptyPdf ==
    [name |-> <<"n", ".", "p", "d", "f">>, corrupt |-> FALSE, rows |-> <<>>,
     text |-> <<"h", "i", " ", "1", "A", "B">>]
BadPdf ==
    [name |-> <<"b", ".", "P", "D", "F">>, corrupt |-> TRUE, rows |-> <<>>, text |-> <<>>]
TextFile ==
    [name |-> <<"k", ".", "t", "x", "t">>, corrupt |-> FALSE, rows |-> <<>>,
     text |-> <<"1", " ", "A">>]
GapXlsx ==
    [name |-> <<"g", ".", "x", "l", "s">>, corrupt |-> FALSE,
     rows |-> <<<<<<"1">>, <<"A">>>>, <<<<"2">>, <<"B">>>>, <<<<"3">>, <<"C">>>>,
               <<<<"9">>, <<"D">>>>>>, text |-> <<>>]
Files ==
    {HeaderXls, TextFile}
ConfigFiles ==
    {BadXlsx, TextFile}
ScoreFiles ==
    {GapXlsx, TextFile}
UploadFiles ==
    {KeyXlsx, DupPdf, EmptyPdf, TextFile}
FileInputs(files) == {<<>>} \cup {<<f>> : f \in files}

(***************************************************************************)
(* The page after the script has loaded.  The texts and classes the markup *)
(* gives the elements are those resetEverything restores.                  *)
(***************************************************************************)
Init ==
    /\ totalQuestions = 0
    /\ correctMarks = null
    /\ wrongMarks = null
    /\ answerKey = EmptyKey
    /\ timerInterval = null
    /\ startTime = 0
    /\ isGraded = FALSE
    /\ omrSheet = <<>>
    /\ omrContainerHidden = TRUE
    /\ manualKeyInput = <<>>
    /\ configError = <<>>
    /\ checkError = <<>>
    /\ statusMessage = <<>>
    /\ results = <<>>
    /\ timeTakenInfo = <<>>
    /\ timerDisplay = <<"0", "0", ":", "0", "0">>
    /\ checkBtn = [text |-> "Finish & Check", onclick |-> "null"]
    /\ confirmModalHidden = TRUE
    /\ savePdfBtnHidden = TRUE
    /\ now = PageLoadMs
    /\ intervals = {}
    /\ readers = <<>>

(***************************************************************************)
(* Events.                                                                 *)
(***************************************************************************)
\* click on #generate-btn (or Enter in #question-count) with the inputs filled in
GenerateClick(countValue, correctValue, wrongValue) ==
    Install(generateOMRSheet(Cur, countValue, correctValue, wrongValue))

\* click on an enabled radio button of row q
RadioClick(q, option) ==
    /\ q <= Len(omrSheet)
    /\ ~omrSheet[q].disabled
    /\ omrSheet[q].checked # option
    /\ Install(selectOption(Cur, q, option))

\* click on the visible clear button of row q
ClearClick(q) ==
    /\ q <= Len(omrSheet)
    /\ ~omrSheet[q].clearHidden
    /\ Install(clearSelection(Cur, omrSheet[q].id))

\* the user edits #manual-key
ManualKeyTyped(value) ==
    /\ manualKeyInput # value
    /\ Install([Cur EXCEPT !.manualKeyInput = value])

\* click on #check-btn
CheckBtnClick == Install(checkBtnClick(Cur))

\* click on #confirm-yes-btn in the open modal
ConfirmYesClick ==
    /\ ~confirmModalHidden
    /\ Install(handleConfirmProceed(Cur))

\* click on #confirm-no-btn in the open modal
ConfirmNoClick ==
    /\ ~confirmModalHidden
    /\ Install([Cur EXCEPT !.confirmModalHidden = TRUE])

\* click on #reset-btn
ResetClick == Install(resetEverything(Cur))

\* click on the visible #save-pdf-btn
SavePdfClick ==
    /\ ~savePdfBtnHidden
    /\ Install(saveResultAsPDF(Cur))

\* change event of #file-upload
FileChosen(file, maxReaders) ==
    /\ Len(readers) < maxReaders
    /\ Install(handleFileUpload(Cur, file))

\* an extraction in flight completes
ReaderLoaded(k) ==
    /\ k \in 1..Len(readers)
    /\ Install(readerOnload(Cur, k))

\* a live interval fires
TimerFires ==
    /\ intervals # {}
    /\ Install(timerCallback(Cur))

\* time passes
ClockAdvance(maxSteps) ==
    /\ now < PageLoadMs + (maxSteps * ClockStepMs)
    /\ Install([Cur EXCEPT !.now = @ + ClockStepMs])

Next ==
    \/ \E c \in CountValues, cm \in CorrectValues, wm \in WrongValues : GenerateClick(c, cm, wm)
    \/ \E sel \in Selections : RadioClick(sel[1], sel[2])
    \/ \E sel \in Selections : ClearClick(sel[1])
    \/ \E k \in ManualKeys : ManualKeyTyped(k)
    \/ CheckBtnClick
    \/ ConfirmYesClick
    \/ ConfirmNoClick
    \/ ResetClick
    \/ SavePdfClick
    \/ \E f \in FileInputs(Files) : FileChosen(f, MaxReaders)
    \/ \E k \in 1..MaxReaders : ReaderLoaded(k)
    \/ TimerFires
    \/ ClockAdvance(MaxClockSteps)

Spec == Init /\ [][Next]_vars

NextConfig ==
    \/ \E c \in ConfigCountValues, cm \in ConfigCorrectValues, wm \in ConfigWrongValues :
           GenerateClick(c, cm, wm)
    \/ \E sel \in ConfigSelections : RadioClick(sel[1], sel[2])
    \/ \E sel \in ConfigSelections : ClearClick(sel[1])
    \/ \E k \in ConfigManualKeys : ManualKeyTyped(k)
    \/ CheckBtnClick
    \/ ConfirmYesClick
    \/ ConfirmNoClick
    \/ ResetClick
    \/ SavePdfClick
    \/ \E f \in FileInputs(ConfigFiles) : FileChosen(f, MaxReaders)
    \/ \E k \in 1..MaxReaders : ReaderLoaded(k)
    \/ TimerFires
    \/ ClockAdvance(MaxClockSteps)

SpecConfig == Init /\ [][NextConfig]_vars

NextScore ==
    \/ \E c \in ScoreCountValues, cm \in ScoreCorrectValues, wm \in ScoreWrongValues :
           GenerateClick(c, cm, wm)
    \/ \E sel \in ScoreSelections : RadioClick(sel[1], sel[2])
    \/ \E sel \in ScoreSelections : ClearClick(sel[1])
    \/ \E k \in ScoreManualKeys : ManualKeyTyped(k)
    \/ CheckBtnClick
    \/ ConfirmYesClick
    \/ ConfirmNoClick
    \/ ResetClick
    \/ SavePdfClick
    \/ \E f \in FileInputs(ScoreFiles) : FileChosen(f, MaxReaders)
    \/ \E k \in 1..MaxReaders : ReaderLoaded(k)
    \/ TimerFires
    \/ ClockAdvance(MaxClockSteps)

SpecScore == Init /\ [][NextScore]_vars

NextUpload ==
    \/ \E c \in UploadCountValues, cm \in CorrectValues, wm \in WrongValues :
           GenerateClick(c, cm, wm)
    \/ \E sel \in UploadSelections : RadioClick(sel[1], sel[2])
    \/ \E sel \in UploadSelections : ClearClick(sel[1])
    \/ \E k \in UploadManualKeys : ManualKeyTyped(k)
    \/ CheckBtnClick
    \/ ConfirmYesClick
    \/ ConfirmNoClick
    \/ ResetClick
    \/ SavePdfClick
    \/ \E f \in FileInputs(UploadFiles) : FileChosen(f, UploadMaxReaders)
    \/ \E k \in 1..UploadMaxReaders : ReaderLoaded(k)
    \/ TimerFires
    \/ ClockAdvance(MaxClockSteps)

SpecUpload == Init /\ [][NextUpload]_vars

(***************************************************************************)
(* Properties.                                                             *)
(***************************************************************************)
Selected(sheet) == [i \in 1..Len(sheet) |-> sheet[i].checked]
TimerState(s) == <<s.timerInterval, s.intervals, s.startTime, s.timeTakenInfo, s.timerDisplay>>

\* the counts asked for, written in decimal
AcceptedCounts == {1, 2, 200}
RejectedCounts == {0, 201}
RejectedCountValues ==
    {NatToStr(n) : n \in RejectedCounts} \cup {<<"-">> \o NatToStr(1), <<>>, <<"x">>}

\* C1: from every reachable state (a sheet with selections included), generating
\* with a count N in 1..200 leaves exactly N rows numbered 1..N, none of them
\* selected, and totalQuestions = N; a count below 1, above 200 or not a number
\* is rejected with the configuration error and leaves the sheet as it was.
C1_GenerateYieldsSheet ==
    \A cm \in ConfigCorrectValues, wm \in ConfigWrongValues :
        /\ \A n \in AcceptedCounts :
               LET t == generateOMRSheet(Cur, NatToStr(n), cm, wm)
               IN  /\ t.configError = <<>>
                   /\ t.totalQuestions = n
                   /\ Len(t.omrSheet) = n
                   /\ \A i \in 1..n : t.omrSheet[i].id = i /\ t.omrSheet[i].checked = "none"
        /\ \A c \in RejectedCountValues :
               LET t == generateOMRSheet(Cur, c, cm, wm)
               IN  /\ t.configError # <<>>
                   /\ t.totalQuestions = totalQuestions
                   /\ t.omrSheet = omrSheet

\* a sheet of 200 fresh rows generated after an earlier session was finished
C1_Witness ==
    /\ totalQuestions = 200
    /\ Len(omrSheet) = 200
    /\ \A i \in 1..200 : omrSheet[i].checked = "none"
    /\ timeTakenInfo # <<>>
    /\ intervals # {}
    /\ configError = <<>>

\* C2: a generation with a count outside 1..200 shows the error and changes
\* nothing else: totalQuestions, the marking scheme, answerKey, isGraded, the
\* rows with their selections and the timer are what they were.
C2_RejectedBeforeMutation ==
    \A c \in RejectedCountValues, cm \in ConfigCorrectValues, wm \in ConfigWrongValues :
        LET t == generateOMRSheet(Cur, c, cm, wm)
        IN  /\ t.configError # <<>>
            /\ t.totalQuestions = totalQuestions
            /\ t.correctMarks = correctMarks
            /\ t.wrongMarks = wrongMarks
            /\ t.answerKey = answerKey
            /\ t.isGraded = isGraded
            /\ t.omrSheet = omrSheet
            /\ TimerState(t) = TimerState(Cur)

\* a rejected generation over a running sheet that has a selection and a scheme
C2_Witness ==
    /\ configError # <<>>
    /\ totalQuestions = 1
    /\ omrSheet[1].checked = "A"
    /\ correctMarks = <<4>>
    /\ wrongMarks = <<-1>>
    /\ intervals # {}

\* the manual key as handleCheckAnswers reads it, and the size of the key a
\* Finish & Check goes by: the manual key if one is typed, else the loaded key
ManualKeyText(s) == toUpperCase(trim(s.manualKeyInput))
KeySize(s) ==
    IF ManualKeyText(s) # <<>> THEN Len(ManualKeyText(s))
    ELSE Cardinality(DOMAIN s.answerKey)
NotGradedBy(t) ==
    /\ t.isGraded = isGraded
    /\ t.results = results
    /\ t.omrSheet = omrSheet
    /\ t.answerKey = answerKey
    /\ TimerState(t) = TimerState(Cur)
GradedBy(t) == t.isGraded /\ t.results # <<>> /\ t.checkError = <<>>

\* C3 as stated: with s the text typed into the manual key field, Finish & Check
\* fails with the key-length error and grades nothing when length(s) # N, and
\* grades with answerKey[i] = upper(s[i-1]) when length(s) = N.
C3_Original ==
    manualKeyInput # <<>> =>
        LET t == checkBtnClick(Cur)
            s == manualKeyInput
        IN  IF Len(s) # totalQuestions
            THEN /\ t.checkError # <<>>
                 /\ t.checkError[1] = "Manual key has"
                 /\ NotGradedBy(t)
            ELSE /\ GradedBy(t)
                 /\ DOMAIN t.answerKey = 1..totalQuestions
                 /\ \A i \in 1..totalQuestions : <<t.answerKey[i]>> = UpperChar(s[i])

\* C4: a Finish & Check grades only with a key of exactly totalQuestions
\* entries, and with such a key gradeSheet does run; with a key of another
\* size it shows an error naming both sizes and leaves isGraded, the timer, the
\* selections and the results as they were; with no key at all it grades
\* nothing either.
C4_GradesOnlyFullKey ==
    LET t == checkBtnClick(Cur)
        size == KeySize(Cur)
    IN  /\ size # totalQuestions => NotGradedBy(t)
        /\ (size # totalQuestions /\ size > 0) =>
               /\ t.checkError # <<>>
               /\ t.checkError[2] = size
               /\ t.checkError[4] = totalQuestions
        /\ (size = totalQuestions /\ size > 0) =>
               /\ t.isGraded
               /\ t.checkError = <<>>
               /\ Cardinality(DOMAIN t.answerKey) = totalQuestions

\* a loaded key of one answer turned away on a running two-question sheet
C4_Witness ==
    /\ checkError = <<"Uploaded key has", 1, "answers, but there are", 2>>
    /\ answerKey = (1 :> "B")
    /\ totalQuestions = 2
    /\ omrSheet[1].checked = "A"
    /\ ~isGraded
    /\ intervals # {}

\* the uploads that end in a failure: no acceptable row, no match, or a file
\* the library cannot decode
FailingUploads == {EmptyXlsx, BadXlsx, EmptyPdf, BadPdf}

\* C5: every failing key operation leaves answerKey as it was: a Finish & Check
\* with a manual key of the wrong length, the completion of an upload with no
\* acceptable row, with no match or of a file that cannot be processed, and the
\* choice of a file with an unsupported extension; each of them shows an error.
C5_FailureKeepsKey ==
    /\ \A f \in FailingUploads :
           LET s1 == handleFileUpload(Cur, <<f>>)
               t == readerOnload(s1, Len(s1.readers))
           IN  /\ Len(s1.readers) = Len(readers) + 1
               /\ s1.answerKey = answerKey
               /\ t.answerKey = answerKey
               /\ t.checkError # <<>>
    /\ LET t == handleFileUpload(Cur, <<TextFile>>)
       IN  /\ t.answerKey = answerKey
           /\ t.readers = readers
           /\ t.checkError # <<>>
    /\ (ManualKeyText(Cur) # <<>> /\ Len(ManualKeyText(Cur)) # totalQuestions) =>
           LET t == checkBtnClick(Cur)
           IN  /\ t.answerKey = answerKey
               /\ t.checkError # <<>>

\* a loaded key still in place after a later upload found no answers
C5_Witness ==
    /\ answerKey = (1 :> "A" @@ 2 :> "B")
    /\ checkError = <<"Could not find valid answers in the PDF.">>
    /\ readers = <<>>

\* the outcome the claims give question i for selection sel under key
Outcome(sel, key, i) ==
    IF sel = "none" THEN "none"
    ELSE IF i \in DOMAIN key /\ key[i] = sel THEN "correct"
    ELSE "incorrect"
CountOf(sheet, key, outcome) ==
    Cardinality({i \in 1..Len(sheet) : Outcome(sheet[i].checked, key, i) = outcome})
FullKey == KeySize(Cur) = totalQuestions /\ totalQuestions > 0

\* C6: a Finish & Check with a key of totalQuestions entries marks every
\* question i unanswered when nothing is selected, correct when the selected
\* letter is answerKey[i], incorrect otherwise (also when answerKey has no
\* entry i); the three counts shown are the numbers of questions so marked,
\* and in every state that shows results they add up to totalQuestions.
C6_Classification ==
    /\ results # <<>> =>
           results[1].correct + results[1].incorrect + results[1].unanswered = totalQuestions
    /\ FullKey =>
           LET t == checkBtnClick(Cur)
           IN  /\ GradedBy(t)
               /\ \A i \in 1..totalQuestions :
                      /\ t.omrSheet[i].checked = omrSheet[i].checked
                      /\ t.omrSheet[i].cls = Outcome(omrSheet[i].checked, t.answerKey, i)
               /\ t.results[1].correct = CountOf(omrSheet, t.answerKey, "correct")
               /\ t.results[1].incorrect = CountOf(omrSheet, t.answerKey, "incorrect")
               /\ t.results[1].unanswered = CountOf(omrSheet, t.answerKey, "none")

\* a sheet graded with a key that has no entry 4: question 4 answered and
\* incorrect, question 1 correct, question 3 unanswered
C6_Witness ==
    /\ results # <<>>
    /\ DOMAIN answerKey = {1, 2, 3, 9}
    /\ omrSheet[1].cls = "correct"
    /\ omrSheet[3].checked = "none"
    /\ omrSheet[4].checked = "D"
    /\ omrSheet[4].cls = "incorrect"

\* C7: with correctMarks set, grading shows the score correct * correctMarks +
\* incorrect * (wrongMarks or 0) out of totalQuestions * correctMarks, a wrong
\* mark entered as 1 is stored as -1, and four questions with 4 and 1 marks, 2
\* correct, 1 incorrect and 1 unanswered show 7 out of 16; with correctMarks
\* not set, grading shows correct / totalQuestions and no marks.
C7_Scoring ==
    /\ \A cm \in ScoreCorrectValues :
           generateOMRSheet(Cur, <<"4">>, cm, <<"1">>).wrongMarks = <<-1>>
    /\ FullKey =>
           LET t == checkBtnClick(Cur)
               r == t.results[1]
           IN  /\ GradedBy(t)
               /\ IF correctMarks # null
                  THEN /\ r.score = <<r.correct * correctMarks[1] +
                                      r.incorrect * (IF wrongMarks = null THEN 0
                                                     ELSE wrongMarks[1])>>
                       /\ r.totalInfo = <<totalQuestions * correctMarks[1]>>
                  ELSE /\ r.score = <<r.correct, totalQuestions>>
                       /\ r.totalInfo = <<>>
                       /\ r.breakdown = <<>>
               /\ ( /\ totalQuestions = 4
                    /\ correctMarks = <<4>>
                    /\ wrongMarks = <<-1>>
                    /\ r.correct = 2 /\ r.incorrect = 1 /\ r.unanswered = 1 ) =>
                      r.score = <<7>> /\ r.totalInfo = <<16>>

\* the example: key ABCD, selections A, A, none, D, marks 4 and 1
C7_Witness ==
    /\ totalQuestions = 4
    /\ correctMarks = <<4>>
    /\ wrongMarks = <<-1>>
    /\ answerKey = <<"A", "B", "C", "D">>
    /\ Selected(omrSheet) = <<"A", "A", "none", "D">>
    /\ results # <<>>
    /\ results[1].score = <<7>>
    /\ results[1].totalInfo = <<16>>
    /\ results[1].correct = 2
    /\ results[1].incorrect = 1
    /\ results[1].unanswered = 1

\* C8: a second Finish & Check right after a grading, at once or after the
\* clock has moved on, shows the same counts, score and maximum and marks every
\* question as the first did.
C8_Idempotent ==
    FullKey =>
        LET t1 == checkBtnClick(Cur)
            t2 == checkBtnClick(t1)
            t3 == checkBtnClick([t1 EXCEPT !.now = @ + ClockStepMs])
        IN  /\ GradedBy(t1)
            /\ t2.results = t1.results
            /\ t3.results = t1.results
            /\ t2.answerKey = t1.answerKey
            /\ \A i \in 1..totalQuestions :
                   /\ t2.omrSheet[i].cls = t1.omrSheet[i].cls
                   /\ t3.omrSheet[i].cls = t1.omrSheet[i].cls
                   /\ t2.omrSheet[i].checked = t1.omrSheet[i].checked

\* an unweighted sheet graded 2 / 4, on which the button still checks answers
C8_Witness ==
    /\ results # <<>>
    /\ results[1].score = <<2, 4>>
    /\ isGraded
    /\ checkBtn.onclick = "handleCheckAnswers"
    /\ now > startTime

\* C9: every step that ends in a state showing results (the grading itself and
\* every later step up to the next reset or generation) leaves every
\* question's selection as it was.
C9_SelectionsFrozen ==
    [][results' # <<>> => Selected(omrSheet') = Selected(omrSheet)]_vars

\* a graded sheet: an answered and an unanswered question, both disabled and
\* without a clear button
C9_Witness ==
    /\ results # <<>>
    /\ omrSheet[1].checked = "A"
    /\ omrSheet[1].disabled
    /\ omrSheet[1].clearHidden
    /\ omrSheet[2].checked = "none"
    /\ omrSheet[2].disabled

\* C10 as stated: once the user has proceeded without a key (the check button
\* has become the save button), no later event before a reset or a generation
\* grades the sheet, shows results, changes a selection or restarts the timer.
C10_Original ==
    [][(checkBtn.onclick = "saveResultAsPDF" /\ checkBtn'.onclick = "saveResultAsPDF") =>
          /\ ~isGraded'
          /\ results' = results
          /\ Selected(omrSheet') = Selected(omrSheet)
          /\ intervals' = intervals]_vars

\* C11: resetEverything has no precondition: run from any reachable state
\* (no sheet, running, graded, marked ungraded) it leaves totalQuestions = 0,
\* no question rows, an empty answerKey, correctMarks and wrongMarks null, isGraded false, the check
\* button labelled Finish & Check and checking answers, nothing of a grading
\* on display, no live interval and the timer display at 00:00.
C11_ResetToStart ==
    /\ LET t == resetEverything(Cur)
       IN  /\ t.totalQuestions = 0
           /\ t.omrSheet = <<>>
           /\ t.omrContainerHidden
           /\ t.answerKey = EmptyKey
           /\ t.manualKeyInput = <<>>
           /\ t.correctMarks = null
           /\ t.wrongMarks = null
           /\ ~t.isGraded
           /\ t.checkBtn.text = "Finish & Check"
           /\ t.checkBtn.onclick = "handleCheckAnswers"
           /\ t.results = <<>>
           /\ t.savePdfBtnHidden
           /\ t.checkError = <<>>
           /\ t.statusMessage = <<>>
           /\ t.intervals = {}
           /\ t.timerDisplay = <<"0", "0", ":", "0", "0">>

\* the page after a Reset that followed a stopped timer: no sheet, no key, no
\* marks, while the start time and the time taken of the old session remain
C11_Witness ==
    /\ totalQuestions = 0
    /\ omrSheet = <<>>
    /\ answerKey = EmptyKey
    /\ ~isGraded
    /\ checkBtn = [text |-> "Finish & Check", onclick |-> "handleCheckAnswers"]
    /\ intervals = {}
    /\ timerDisplay = <<"0", "0", ":", "0", "0">>
    /\ startTime > 0
    /\ timeTakenInfo # <<>>

\* the entries of key for the questions 1..n
Inside(key, n) == [k \in (DOMAIN key) \cap (1..n) |-> key[k]]

\* C12 as stated: with no manual key typed, a Finish & Check with the loaded
\* key grades exactly when it would grade with the entries for 1..N alone, and
\* shows the same counts; the entries outside 1..N change nothing.
C12_Original ==
    (ManualKeyText(Cur) = <<>> /\ totalQuestions > 0) =>
        LET with == checkBtnClick(Cur)
            without == checkBtnClick([Cur EXCEPT !.answerKey = Inside(answerKey, totalQuestions)])
        IN  /\ GradedBy(with) <=> GradedBy(without)
            /\ (with.checkError = <<>>) <=> (without.checkError = <<>>)
            /\ GradedBy(with) => with.results = without.results

\* the uploads that parse, and the key each of them parses to
SuccessfulUploads == {KeyXlsx, HeaderXls, KeyPdf, GapXlsx}
ParsedKey(f) ==
    IF f.rows # <<>>
    THEN ExcelRows(f.rows, 1, [newKey |-> EmptyKey, parsedCount |-> 0]).newKey
    ELSE TextMatches(f.text, 1, [newKey |-> EmptyKey, parsedCount |-> 0]).newKey

\* C13 as stated: when upload f2 is started while upload f1 is still being
\* extracted and both parse, then after both completions, whichever of the two
\* completes first, answerKey is the key parsed from f2.
C13_Original ==
    \A f1 \in SuccessfulUploads, f2 \in SuccessfulUploads :
        LET k == Len(readers) + 1
            started == handleFileUpload(handleFileUpload(Cur, <<f1>>), <<f2>>)
            firstThenSecond == readerOnload(readerOnload(started, k), k)
            secondThenFirst == readerOnload(readerOnload(started, k + 1), k)
        IN  /\ firstThenSecond.answerKey = ParsedKey(f2)
            /\ secondThenFirst.answerKey = ParsedKey(f2)

\* texts with the key and the number of matches the pattern of
\* parseAnswerKeyFromText has in them, by hand; count 0 is no match at all
TextCases ==
    { [text |-> <<"5", "-", "A", " ", "5", "-", "B">>, key |-> (5 :> "B"), count |-> 2],
      [text |-> <<"1", ".", " ", "A", " ", "2", "-", "B", " ", "3", ":", "C", " ", "4", " ", "D">>,
       key |-> <<"A", "B", "C", "D">>, count |-> 4],
      [text |-> <<"1", ".", " ", "A", " ", "2", "-", "A", " ", "2", "-", "B">>, key |-> (1 :> "A" @@ 2 :> "B"), count |-> 3],
      [text |-> <<"7", " ", "D", "\n", "1", "0", " ", ":", " ", "C", " ", "7", ".", "D">>, key |-> (7 :> "D" @@ 10 :> "C"), count |-> 3],
      [text |-> <<"x", "1", "2", "A", " ", "3", "a", " ", "4", "-", "A", "B">>, key |-> (12 :> "A"), count |-> 1],
      [text |-> <<"h", "i", " ", "1", "A", "B">>, key |-> EmptyKey, count |-> 0],
      [text |-> <<"1", "-", "a", " ", "2", " ", ":", " ", "E", " ", "A">>, key |-> EmptyKey, count |-> 0],
      [text |-> <<>>, key |-> EmptyKey, count |-> 0] }

\* C14: parseAnswerKeyFromText gives every matched question number the letter
\* of its last match ("5-A 5-B" gives {5:B}, "1. A 2-B 3:C 4 D" gives
\* {1:A, 2:B, 3:C, 4:D}) and reports the number of matches; a text without a
\* match gives the no-valid-answers error and leaves the key alone.
C14_TextParse ==
    \A c \in TextCases :
        LET t == parseAnswerKeyFromText(Cur, c.text)
        IN  IF c.count = 0
            THEN /\ t.checkError = <<"Could not find valid answers in the PDF.">>
                 /\ t.answerKey = answerKey
                 /\ t.statusMessage = statusMessage
            ELSE /\ t.answerKey = c.key
                 /\ t.statusMessage = <<c.count, "answers loaded.">>
                 /\ t.checkError = <<>>

\* the key of a text with three matches, two of them for question 2, loaded
C14_Witness ==
    /\ answerKey = (1 :> "A" @@ 2 :> "B")
    /\ statusMessage = <<3, "answers loaded.">>
    /\ checkError = <<>>
    /\ manualKeyInput = <<>>

\* sheets with the key and the number of accepted rows, by hand: a row counts
\* when its first cell starts with an integer and its second cell, trimmed and
\* upper-cased, is A, B, C or D; count 0 is no such row
ExcelCases ==
    { [rows |-> <<<<<<"Q">>, <<"A", "n", "s">>>>, <<<<"1">>, <<" ", "b", " ">>>>>>,
       key |-> (1 :> "B"), count |-> 1],
      [rows |-> <<<<<<"1">>, <<"A">>>>, <<<<"2">>, <<"B">>>>>>,
       key |-> <<"A", "B">>, count |-> 2],
      [rows |-> <<<<<<"1">>, <<"A">>>>, <<<<"1">>, <<"C">>>>, <<<<"x">>, <<"A">>>>, <<<<"2">>, <<"E">>>>, <<<<"3">>>>, <<>>, <<<<" ", "4">>, <<"d">>>>, <<<<"5">>, <<"A", "B">>>>>>,
       key |-> (1 :> "C" @@ 4 :> "D"), count |-> 3],
      [rows |-> <<<<<<"2", "x">>, <<"a">>>>>>,
       key |-> (2 :> "A"), count |-> 1],
      [rows |-> <<<<<<"Q">>, <<"A", "n", "s">>>>, <<<<"x">>, <<"A">>>>, <<<<"1">>, <<"e">>>>, <<<<"2">>>>>>,
       key |-> EmptyKey, count |-> 0],
      [rows |-> <<>>, key |-> EmptyKey, count |-> 0] }

\* C15: parseAnswerKeyFromExcel accepts exactly the rows whose first cell
\* parses as an integer and whose second cell, trimmed and upper-cased, is one
\* of A, B, C, D, skips every other row, lets a later row overwrite an earlier
\* one of the same number and reports the number of accepted rows; a sheet
\* without an accepted row gives the no-valid-answers error and leaves the key
\* alone.
C15_TabularParse ==
    \A c \in ExcelCases :
        LET t == parseAnswerKeyFromExcel(Cur, c.rows)
        IN  IF c.count = 0
            THEN /\ t.checkError = <<"Could not find valid answers in the Excel file.">>
                 /\ t.answerKey = answerKey
                 /\ t.statusMessage = statusMessage
            ELSE /\ t.answerKey = c.key
                 /\ t.statusMessage = <<c.count, "answers loaded.">>
                 /\ t.checkError = <<>>

\* the key of a sheet with a header row and the row (1, " b "), loaded
C15_Witness ==
    /\ answerKey = (1 :> "B")
    /\ statusMessage = <<1, "answers loaded.">>
    /\ checkError = <<>>
    /\ manualKeyInput = <<>>
    /\ readers = <<>>

\* C16: the completion of an upload that parses leaves answerKey equal to the
\* newly parsed mapping, with no entry of the key before it, and the manual key
\* field empty; the Finish & Check that follows goes by the uploaded key: it
\* grades the selections against it when it has totalQuestions entries, and
\* turns it away as an uploaded key of the wrong size otherwise.
C16_ParseReplaces ==
    \A f \in SuccessfulUploads :
        LET started == handleFileUpload(Cur, <<f>>)
            t == readerOnload(started, Len(started.readers))
            u == checkBtnClick(t)
            key == ParsedKey(f)
        IN  /\ started.answerKey = answerKey
            /\ t.answerKey = key
            /\ DOMAIN t.answerKey = DOMAIN key
            /\ t.manualKeyInput = <<>>
            /\ t.checkError = <<>>
            /\ u.answerKey = key
            /\ IF Cardinality(DOMAIN key) = totalQuestions
               THEN /\ GradedBy(u)
                    /\ u.results[1].correct = CountOf(omrSheet, key, "correct")
                    /\ u.results[1].incorrect = CountOf(omrSheet, key, "incorrect")
               ELSE /\ u.checkError # <<>>
                    /\ u.checkError[1] = "Uploaded key has"
                    /\ u.results = results

\* a two-question sheet graded against the two answers of an uploaded sheet
C16_Witness ==
    /\ answerKey = (1 :> "A" @@ 2 :> "B")
    /\ statusMessage = <<2, "answers loaded.">>
    /\ manualKeyInput = <<>>
    /\ isGraded
    /\ results # <<>>
    /\ omrSheet[1].cls = "correct"

\* wrong marks as entered (whole numbers), with the value each is stored as
WrongMarkCases ==
    { [value |-> <<>>, stored |-> null],
      [value |-> <<"1">>, stored |-> <<-1>>],
      [value |-> <<"3">>, stored |-> <<-3>>],
      [value |-> <<"0">>, stored |-> <<0>>],
      [value |-> <<"-", "1">>, stored |-> <<-1>>],
      [value |-> <<"-", "2">>, stored |-> <<-2>>] }

\* C17: in every reachable state wrongMarks is null or at most 0; a generation
\* stores a positive entry v as -v, an entry that is not positive as entered
\* and no entry as null; and with wrongMarks null a weighted grading takes
\* nothing off for the incorrect answers.
C17_WrongMarksNotPositive ==
    /\ wrongMarks = null \/ wrongMarks[1] <= 0
    /\ \A c \in WrongMarkCases, cv \in ScoreCountValues :
           generateOMRSheet(Cur, cv, <<"4">>, c.value).wrongMarks = c.stored
    /\ (FullKey /\ wrongMarks = null /\ correctMarks # null) =>
           LET r == checkBtnClick(Cur).results[1]
           IN  /\ r.score = <<r.correct * correctMarks[1]>>
               /\ r.breakdown = <<[gained |-> r.correct * correctMarks[1], lost |-> 0]>>

\* a weighted sheet without wrong marks graded with an incorrect answer that
\* cost nothing
C17_Witness ==
    /\ wrongMarks = null
    /\ correctMarks = <<4>>
    /\ results # <<>>
    /\ results[1].incorrect = 1
    /\ results[1].correct = 2
    /\ results[1].score = <<8>>

\* the session states: no sheet; a sheet being answered; a sheet whose grading
\* has run; a sheet the user chose to keep without a key
Unconfigured == totalQuestions = 0
InProgress == totalQuestions > 0 /\ ~isGraded /\ checkBtn.onclick = "handleCheckAnswers"
Graded == totalQuestions > 0 /\ isGraded
MarkedUngraded == totalQuestions > 0 /\ ~isGraded /\ checkBtn.onclick = "saveResultAsPDF"

\* C18: at most one interval is ever live, it is the one timerInterval names,
\* and one is live exactly in the states with a sheet being answered: never
\* without a sheet, after a grading or after proceeding without a key; every
\* accepted generation leaves exactly one live interval, started at that time.
C18_TimerWhileInProgress ==
    /\ Cardinality(intervals) <= 1
    /\ intervals # {} => intervals = Range(timerInterval)
    /\ intervals # {} <=> InProgress
    /\ (Unconfigured \/ Graded \/ MarkedUngraded) => intervals = {}
    /\ \A c \in CountValues :
           LET t == generateOMRSheet(Cur, c, <<>>, <<>>)
           IN  /\ Cardinality(t.intervals) = 1
               /\ t.intervals = Range(t.timerInterval)
               /\ t.startTime = now

\* a sheet kept without a key: its timer stopped and the time taken shown
C18_Witness ==
    /\ MarkedUngraded
    /\ intervals = {}
    /\ timerInterval # null
    /\ timeTakenInfo # <<>>
    /\ now > startTime

\* C19 as stated: in every reachable state every question number of answerKey
\* is an integer of at least 1 and every answer is one of A, B, C, D.
C19_Original ==
    \A k \in DOMAIN answerKey :
        /\ k \in Nat
        /\ k >= 1
        /\ answerKey[k] \in Range(Options)

\* C20 as stated: whenever the sheet is graded and shows its results, the
\* counts on display are those of the selections against the answerKey of
\* that state.
C20_Original ==
    (isGraded /\ results # <<>>) =>
        /\ results[1].correct = CountOf(omrSheet, answerKey, "correct")
        /\ results[1].incorrect = CountOf(omrSheet, answerKey, "incorrect")
        /\ results[1].unanswered = CountOf(omrSheet, answerKey, "none")

\* C21 as stated: an upload started before a Reset or a generation installs no
\* key afterwards: when its extraction completes after resetEverything or
\* after generateOMRSheet, answerKey is still empty.
C21_Original ==
    \A f \in SuccessfulUploads :
        LET started == handleFileUpload(Cur, <<f>>)
            k == Len(started.readers)
            afterReset == resetEverything(started)
        IN  /\ afterReset.answerKey = EmptyKey
            /\ readerOnload(afterReset, k).answerKey = EmptyKey
            /\ \A c \in UploadCountValues :
                   LET afterGenerate == generateOMRSheet(started, c, <<>>, <<>>)
                   IN  /\ afterGenerate.answerKey = EmptyKey
                       /\ readerOnload(afterGenerate, k).answerKey = EmptyKey

\* C22 as stated: once the session is graded or marked ungraded, every step
\* that leaves it graded or marked ungraded leaves the time taken on display
\* as it was.
C22_Original ==
    [][((Graded \/ MarkedUngraded) /\ (Graded \/ MarkedUngraded)') =>
          timeTakenInfo' = timeTakenInfo]_vars
====
